---------------------------- MODULE Spec2Model ----------------------------
(***************************************************************************)
(* A model of src/handshake.py: the three-state handshake simulator        *)
(* (TCPIPStackSimulator), its Packet value type, the CoverageTracker and   *)
(* the request handlers that drive the two process-wide instances.         *)
(*                                                                         *)
(* Wall-clock readings (time.time()) are carried by the program but never  *)
(* read by any branch; the timestamp fields are left out of the records.   *)
(***************************************************************************)
EXTENDS Integers, Sequences, FiniteSets, TLC

VARIABLES
    simulator,          \* the global TCPIPStackSimulator instance
    coverage_tracker,   \* the global CoverageTracker instance
    call,               \* the operation invoked last, with its arguments
    response            \* what that operation returned

vars == <<simulator, coverage_tracker, call, response>>

----------------------------------------------------------------------------
(* Bounds of the model *)

\* process_packet is called directly only while total_packets is below this
MaxPackets == 3

----------------------------------------------------------------------------
(* class State(Enum) *)

IDLE == 0
SYN_RECEIVED == 1
ACK_RECEIVED == 2

States == {IDLE, SYN_RECEIVED, ACK_RECEIVED}

\* State.<member>.name
StateName(s) ==
    CASE s = IDLE -> "IDLE"
      [] s = SYN_RECEIVED -> "SYN_RECEIVED"
      [] s = ACK_RECEIVED -> "ACK_RECEIVED"

----------------------------------------------------------------------------
(* Characters and integers *)

\* The payload characters sent by clients and by the handlers themselves
Chars == {"S", "K", "Z", "Q"}

\* ord(): the code point of a single character
Ord(c) ==
    CASE c = "S" -> 83
      [] c = "K" -> 75
      [] c = "Z" -> 90
      [] c = "Q" -> 81
      [] c = "X" -> 88
      [] c = "Y" -> 89
      [] c = "A" -> 65
      [] c = "B" -> 66
      [] c = "C" -> 67

\* Python's ^ on non-negative integers, bit by bit
RECURSIVE Xor(_, _)
Xor(a, b) ==
    IF a = 0 THEN b
    ELSE IF b = 0 THEN a
    ELSE (((a % 2) + (b % 2)) % 2) + 2 * Xor(a \div 2, b \div 2)

----------------------------------------------------------------------------
(* @dataclass Packet *)

Packet(data, checksum, flags) ==
    [data |-> data, checksum |-> checksum, flags |-> flags, is_valid |-> TRUE]

compute_checksum_xor_aa(self) == Xor(Ord(self.data), 170)

compute_checksum(self) == Xor(Ord(self.data), 255)

verify_checksum(self) == self.checksum = compute_checksum(self)

\* The checksums a caller supplies: the right one of every character (which is
\* a wrong one for every other character) and the XOR 0xAA corruption of 'S'
Checksums == {Xor(Ord(c), 255) : c \in Chars} \cup {Xor(Ord("S"), 170)}

FlagValues == {0, 1}

Packets == {Packet(c, k, f) : c \in Chars, k \in Checksums, f \in FlagValues}

----------------------------------------------------------------------------
(* @dataclass SimulationResult *)

SimulationResult(packet, output, before, after, valid, response_type) ==
    [input_packet |-> packet, output_data |-> output,
     state_before |-> before, state_after |-> after,
     checksum_valid |-> valid, response_type |-> response_type]

----------------------------------------------------------------------------
(* class TCPIPStackSimulator *)

reset_keeps_state(self) ==
    [state |-> self.state,
     packet_history |-> <<>>,
     simulation_results |-> <<>>,
     statistics |-> [total_packets |-> 0, passed_packets |-> 0,
                     failed_packets |-> 0, checksum_errors |-> 0,
                     state_transitions |-> 0]]

\* reset(): every attribute is assigned anew, whatever self held
reset(self) ==
    [state |-> IDLE,
     packet_history |-> <<>>,
     simulation_results |-> <<>>,
     statistics |-> [total_packets |-> 0, passed_packets |-> 0,
                     failed_packets |-> 0, checksum_errors |-> 0,
                     state_transitions |-> 0]]

\* __init__(): self.state = State.IDLE, then self.reset()
TCPIPStackSimulator == reset([state |-> IDLE])

\* The branches of process_packet return the simulator together with the
\* locals output_data and response_type.
Locals(self, output_data, response_type) ==
    [self |-> self, output_data |-> output_data, response_type |-> response_type]

checksum_error_failed_only(self) ==
    Locals([self EXCEPT !.statistics.failed_packets = @ + 1], "E", "error")

checksum_error_uncounted(self) ==
    Locals([self EXCEPT !.statistics.checksum_errors = @ + 1], "E", "error")

\* if not packet.verify_checksum():
checksum_error(self) ==
    Locals([self EXCEPT !.statistics.checksum_errors = @ + 1,
                        !.statistics.failed_packets = @ + 1],
           "E", "error")

idle_branch_counts_echo(self, packet) ==
    IF packet.data = "S"
    THEN Locals([self EXCEPT !.state = SYN_RECEIVED,
                             !.statistics.state_transitions = @ + 1],
                "A", "syn_ack")
    ELSE Locals([self EXCEPT !.statistics.state_transitions = @ + 1],
                packet.data, "echo")

idle_branch_uncounted(self, packet) ==
    IF packet.data = "S"
    THEN Locals([self EXCEPT !.state = SYN_RECEIVED], "A", "syn_ack")
    ELSE Locals(self, packet.data, "echo")

\* if self.state == State.IDLE:
idle_branch(self, packet) ==
    IF packet.data = "S"
    THEN Locals([self EXCEPT !.state = SYN_RECEIVED,
                             !.statistics.state_transitions = @ + 1],
                "A", "syn_ack")
    ELSE Locals(self, packet.data, "echo")

syn_received_branch_back_to_idle(self, packet) ==
    IF packet.data = "K"
    THEN Locals([self EXCEPT !.state = ACK_RECEIVED,
                             !.statistics.state_transitions = @ + 1],
                "C", "ack_complete")
    ELSE IF packet.data = "Z"
    THEN Locals([self EXCEPT !.state = IDLE], packet.data, "echo")
    ELSE Locals(self, packet.data, "echo")

syn_received_branch_restart(self, packet) ==
    IF packet.data = "K"
    THEN Locals([self EXCEPT !.state = ACK_RECEIVED,
                             !.statistics.state_transitions = @ + 1],
                "C", "ack_complete")
    ELSE IF packet.data = "S"
    THEN Locals(self, "A", "syn_ack")
    ELSE Locals(self, packet.data, "echo")

\* elif self.state == State.SYN_RECEIVED:
syn_received_branch(self, packet) ==
    IF packet.data = "K"
    THEN Locals([self EXCEPT !.state = ACK_RECEIVED,
                             !.statistics.state_transitions = @ + 1],
                "C", "ack_complete")
    ELSE Locals(self, packet.data, "echo")

ack_received_branch_reopen(self, packet) ==
    IF packet.data = "S"
    THEN Locals([self EXCEPT !.state = SYN_RECEIVED,
                             !.statistics.state_transitions = @ + 1],
                "A", "syn_ack")
    ELSE Locals(self, packet.data, "data_transfer")

\* elif self.state == State.ACK_RECEIVED:
ack_received_branch(self, packet) ==
    Locals(self, packet.data, "data_transfer")

dispatch_no_ack_branch(self, packet) ==
    LET l == CASE self.state = IDLE -> idle_branch(self, packet)
               [] self.state = SYN_RECEIVED -> syn_received_branch(self, packet)
               [] OTHER -> Locals(self, "", "normal")
    IN  [l EXCEPT !.self.statistics.passed_packets = @ + 1]

dispatch_counts_twice(self, packet) ==
    LET l == CASE self.state = IDLE -> idle_branch(self, packet)
               [] self.state = SYN_RECEIVED -> syn_received_branch(self, packet)
               [] self.state = ACK_RECEIVED -> ack_received_branch(self, packet)
               [] OTHER -> Locals(self, "", "normal")
    IN  [l EXCEPT !.self.statistics.passed_packets = @ + 2]

\* The else: branch of the checksum test: the if/elif chain over self.state,
\* which leaves the locals at "" and "normal" when no arm matches, and then
\* passed_packets += 1
dispatch(self, packet) ==
    LET l == CASE self.state = IDLE -> idle_branch(self, packet)
               [] self.state = SYN_RECEIVED -> syn_received_branch(self, packet)
               [] self.state = ACK_RECEIVED -> ack_received_branch(self, packet)
               [] OTHER -> Locals(self, "", "normal")
    IN  [l EXCEPT !.self.statistics.passed_packets = @ + 1]

append_result_valid_only(self, result, packet) ==
    IF result.checksum_valid
    THEN [self EXCEPT !.simulation_results = Append(@, result),
                      !.packet_history = Append(@, packet)]
    ELSE self

\* self.simulation_results.append(result); self.packet_history.append(packet)
append_result(self, result, packet) ==
    [self EXCEPT !.simulation_results = Append(@, result),
                 !.packet_history = Append(@, packet)]

\* process_packet(): the simulator after the call and the dict it returns
process_packet(self, packet) ==
    LET counted == [self EXCEPT !.statistics.total_packets = @ + 1]
        state_before == counted.state
        l == IF ~verify_checksum(packet)
             THEN checksum_error(counted)
             ELSE dispatch(counted, packet)
        result == SimulationResult(packet, l.output_data, state_before,
                                   l.self.state, verify_checksum(packet),
                                   l.response_type)
        after == append_result(l.self, result, packet)
    IN  [self |-> after,
         result |-> [input_data |-> packet.data,
                     output_data |-> l.output_data,
                     state_before |-> StateName(state_before),
                     state_after |-> StateName(after.state),
                     checksum_valid |-> verify_checksum(packet),
                     response_type |-> l.response_type]]

----------------------------------------------------------------------------
(* class CoverageTracker *)

\* __init__()
CoverageTracker ==
    [input_coverage |-> [syn |-> 0, ack |-> 0, noise |-> 0, misc |-> 0],
     fsm_transitions |-> [idle_to_syn |-> 0, syn_to_ack |-> 0, resets |-> 0]]

update_input_coverage_no_noise(self, data) ==
    IF data = "S" THEN [self EXCEPT !.input_coverage.syn = @ + 1]
    ELSE IF data = "K" THEN [self EXCEPT !.input_coverage.ack = @ + 1]
    ELSE [self EXCEPT !.input_coverage.misc = @ + 1]

update_input_coverage(self, data) ==
    IF data = "S" THEN [self EXCEPT !.input_coverage.syn = @ + 1]
    ELSE IF data = "K" THEN [self EXCEPT !.input_coverage.ack = @ + 1]
    ELSE IF data = "Z" THEN [self EXCEPT !.input_coverage.noise = @ + 1]
    ELSE [self EXCEPT !.input_coverage.misc = @ + 1]

update_fsm_coverage_any_syn(self, state_before, state_after) ==
    IF state_after = SYN_RECEIVED
    THEN [self EXCEPT !.fsm_transitions.idle_to_syn = @ + 1]
    ELSE IF state_before = SYN_RECEIVED /\ state_after = ACK_RECEIVED
    THEN [self EXCEPT !.fsm_transitions.syn_to_ack = @ + 1]
    ELSE self

update_fsm_coverage(self, state_before, state_after) ==
    IF state_before = IDLE /\ state_after = SYN_RECEIVED
    THEN [self EXCEPT !.fsm_transitions.idle_to_syn = @ + 1]
    ELSE IF state_before = SYN_RECEIVED /\ state_after = ACK_RECEIVED
    THEN [self EXCEPT !.fsm_transitions.syn_to_ack = @ + 1]
    ELSE self

\* sum(self.input_coverage.values())
total_inputs(self) ==
    self.input_coverage.syn + self.input_coverage.ack
        + self.input_coverage.noise + self.input_coverage.misc

\* sum(self.fsm_transitions.values())
total_transitions(self) ==
    self.fsm_transitions.idle_to_syn + self.fsm_transitions.syn_to_ack
        + self.fsm_transitions.resets

\* max(1, n)
Max1(n) == IF n > 1 THEN n ELSE 1

get_coverage_report_of_four(self) ==
    [input_coverage |-> self.input_coverage,
     fsm_transitions |-> self.fsm_transitions,
     input_coverage_percentage |-> (total_inputs(self) * 100) \div 4,
     fsm_coverage_percentage |-> (total_transitions(self) * 100) \div 2]

\* get_coverage_report(): n / max(1, n) is 0.0 for n = 0 and 1.0 otherwise,
\* which integer division gives as well
get_coverage_report(self) ==
    [input_coverage |-> self.input_coverage,
     fsm_transitions |-> self.fsm_transitions,
     input_coverage_percentage |->
         (total_inputs(self) \div Max1(total_inputs(self))) * 100,
     fsm_coverage_percentage |->
         (total_transitions(self) \div Max1(total_transitions(self))) * 100]

----------------------------------------------------------------------------
(* API endpoints. Each handler is given the two global instances and the   *)
(* request's JSON body and returns the instances after it ran together     *)
(* with the body of its JSON response.                                     *)

Handled(sim, tracker, body) ==
    [simulator |-> sim, coverage_tracker |-> tracker, response |-> body]

\* POST /api/reset
reset_simulation(sim, tracker) ==
    LET s == reset(sim)
    IN  Handled(s, CoverageTracker,
                [message |-> "Simulation reset successfully",
                 state |-> StateName(s.state)])

\* dict.get(key, default)
Get(json, key, default) == IF key \in DOMAIN json THEN json[key] ELSE default

\* POST /api/send-packet, for a body that holds a single character as 'data'
send_packet(sim, tracker, json) ==
    LET packet == Packet(json.data,
                         Get(json, "checksum", Xor(Ord(json.data), 255)),
                         Get(json, "flags", 0))
        state_before == sim.state
        r == process_packet(sim, packet)
        t == update_fsm_coverage(update_input_coverage(tracker, packet.data),
                                 state_before, r.self.state)
    IN  Handled(r.self, t,
                [success |-> TRUE, result |-> r.result,
                 statistics |-> r.self.statistics])

perform_handshake_fresh_tracker(sim, tracker) ==
    LET s0 == reset(sim)
        syn_packet == Packet("S", Xor(Ord("S"), 255), 1)
        syn_result == process_packet(s0, syn_packet)
        ack_packet == Packet("K", Xor(Ord("K"), 255), 2)
        ack_result == process_packet(syn_result.self, ack_packet)
        t == update_fsm_coverage(
                 update_fsm_coverage(
                     update_input_coverage(
                         update_input_coverage(CoverageTracker, "S"), "K"),
                     IDLE, SYN_RECEIVED),
                 SYN_RECEIVED, ACK_RECEIVED)
    IN  Handled(ack_result.self, t,
                [success |-> TRUE,
                 handshake_complete |-> ack_result.self.state = ACK_RECEIVED,
                 results |-> <<syn_result.result, ack_result.result>>,
                 final_state |-> StateName(ack_result.self.state),
                 statistics |-> ack_result.self.statistics])

perform_handshake_ack_first(sim, tracker) ==
    LET s0 == reset(sim)
        ack_packet == Packet("K", Xor(Ord("K"), 255), 2)
        ack_result == process_packet(s0, ack_packet)
        syn_packet == Packet("S", Xor(Ord("S"), 255), 1)
        syn_result == process_packet(ack_result.self, syn_packet)
        t == update_fsm_coverage(
                 update_fsm_coverage(
                     update_input_coverage(
                         update_input_coverage(tracker, "S"), "K"),
                     IDLE, SYN_RECEIVED),
                 SYN_RECEIVED, ACK_RECEIVED)
    IN  Handled(syn_result.self, t,
                [success |-> TRUE,
                 handshake_complete |-> syn_result.self.state = ACK_RECEIVED,
                 results |-> <<ack_result.result, syn_result.result>>,
                 final_state |-> StateName(syn_result.self.state),
                 statistics |-> syn_result.self.statistics])

\* POST /api/handshake
perform_handshake(sim, tracker) ==
    LET s0 == reset(sim)
        syn_packet == Packet("S", Xor(Ord("S"), 255), 1)
        syn_result == process_packet(s0, syn_packet)
        ack_packet == Packet("K", Xor(Ord("K"), 255), 2)
        ack_result == process_packet(syn_result.self, ack_packet)
        t == update_fsm_coverage(
                 update_fsm_coverage(
                     update_input_coverage(
                         update_input_coverage(tracker, "S"), "K"),
                     IDLE, SYN_RECEIVED),
                 SYN_RECEIVED, ACK_RECEIVED)
    IN  Handled(ack_result.self, t,
                [success |-> TRUE,
                 handshake_complete |-> ack_result.self.state = ACK_RECEIVED,
                 results |-> <<syn_result.result, ack_result.result>>,
                 final_state |-> StateName(ack_result.self.state),
                 statistics |-> ack_result.self.statistics])

\* test_chars of run_test
test_chars == {"X", "Y", "Z", "A", "B", "C"}

\* One pass of run_test's second loop draws random.choice(test_chars),
\* random.random() (kept as whether it fell below 0.2; 'and' does not draw it
\* when include_errors is false) and random.randint(0, 3)
Draws(include_errors) ==
    [data_char : test_chars,
     below : IF include_errors THEN BOOLEAN ELSE {FALSE},
     flags : 0..3]

\* The second loop of run_test over the draws still to come: each pass
\* processes one packet and records its character with the tracker
RECURSIVE run_test_loop(_, _, _, _, _)
run_test_loop(sim, tracker, results, include_errors, draws) ==
    IF draws = <<>>
    THEN [simulator |-> sim, coverage_tracker |-> tracker, results |-> results]
    ELSE
        LET d == Head(draws)
            checksum == IF include_errors /\ d.below
                        THEN Xor(Ord(d.data_char), 170)
                        ELSE Xor(Ord(d.data_char), 255)
            r == process_packet(sim, Packet(d.data_char, checksum, d.flags))
        IN  run_test_loop(r.self,
                          update_input_coverage(tracker, d.data_char),
                          Append(results, r.result),
                          include_errors, Tail(draws))

\* POST /api/run-test, for a body that holds 'num_packets'; draws are the
\* num_packets random draws of its second loop
run_test(sim, tracker, json, draws) ==
    LET include_errors == Get(json, "include_errors", TRUE)
        s0 == reset(sim)
        syn_result == process_packet(s0, Packet("S", Xor(Ord("S"), 255), 1))
        ack_result == process_packet(syn_result.self,
                                     Packet("K", Xor(Ord("K"), 255), 2))
        l == run_test_loop(ack_result.self, tracker,
                           <<syn_result.result, ack_result.result>>,
                           include_errors, draws)
    IN  Handled(l.simulator, l.coverage_tracker,
                [success |-> TRUE,
                 results |-> l.results,
                 statistics |-> l.simulator.statistics,
                 coverage |-> get_coverage_report(l.coverage_tracker),
                 final_state |-> StateName(l.simulator.state)])

----------------------------------------------------------------------------
(* The simulator driven directly: process_packet and reset on the instance *)

Init ==
    /\ simulator = TCPIPStackSimulator
    /\ coverage_tracker = CoverageTracker
    /\ call = [op |-> "__init__"]
    /\ response = [value |-> "None"]

ProcessPacket ==
    \E packet \in Packets :
        /\ simulator.statistics.total_packets < MaxPackets
        /\ \E r \in {process_packet(simulator, packet)} :
               /\ simulator' = r.self
               /\ response' = r.result
        /\ call' = [op |-> "process_packet", packet |-> packet]
        /\ UNCHANGED coverage_tracker

Reset ==
    /\ simulator' = reset(simulator)
    /\ call' = [op |-> "reset"]
    /\ response' = [value |-> "None"]
    /\ UNCHANGED coverage_tracker

Next == ProcessPacket \/ Reset

Spec == Init /\ [][Next]_vars

----------------------------------------------------------------------------
(* The simulator and the tracker driven through the API, one request at a  *)
(* time                                                                    *)

\* The tracker's counters only grow between two /api/reset requests: a
\* request is taken only while the inputs counted stay within this
MaxCoverage == 3

\* The bodies of /api/send-packet requests: a character alone (the handler
\* supplies its right checksum), a character with the XOR 0xAA corruption of
\* 'S' (wrong for every character), and 'K' with the right checksum of 'S'
SendPacketBodies ==
    {[data |-> c] : c \in Chars}
        \cup {[data |-> c, checksum |-> Xor(Ord("S"), 170)] : c \in Chars}
        \cup {[data |-> "K", checksum |-> Xor(Ord("S"), 255), flags |-> 1]}

\* num_packets of the /api/run-test requests
NumPackets == {0, 1}

\* The bodies of /api/run-test requests: include_errors is true when left out
RunTestBodies ==
    {[num_packets |-> n] : n \in NumPackets}
        \cup {[num_packets |-> n, include_errors |-> FALSE] : n \in NumPackets}

ResetSimulation ==
    \E h \in {reset_simulation(simulator, coverage_tracker)} :
        /\ simulator' = h.simulator
        /\ coverage_tracker' = h.coverage_tracker
        /\ response' = h.response
        /\ call' = [op |-> "reset_simulation"]

SendPacket ==
    /\ total_inputs(coverage_tracker) + 1 <= MaxCoverage
    /\ \E json \in SendPacketBodies :
        \E h \in {send_packet(simulator, coverage_tracker, json)} :
            /\ simulator' = h.simulator
            /\ coverage_tracker' = h.coverage_tracker
            /\ response' = h.response
            /\ call' = [op |-> "send_packet", json |-> json]

PerformHandshake ==
    /\ total_inputs(coverage_tracker) + 2 <= MaxCoverage
    /\ \E h \in {perform_handshake(simulator, coverage_tracker)} :
           /\ simulator' = h.simulator
           /\ coverage_tracker' = h.coverage_tracker
           /\ response' = h.response
           /\ call' = [op |-> "perform_handshake"]

RunTest ==
    \E json \in RunTestBodies :
        /\ total_inputs(coverage_tracker) + json.num_packets <= MaxCoverage
        /\ \E draws \in [1..json.num_packets ->
                             Draws(Get(json, "include_errors", TRUE))] :
            \E h \in {run_test(simulator, coverage_tracker, json, draws)} :
                /\ simulator' = h.simulator
                /\ coverage_tracker' = h.coverage_tracker
                /\ response' = h.response
                /\ call' = [op |-> "run_test", json |-> json]

ApiNext == ResetSimulation \/ SendPacket \/ PerformHandshake \/ RunTest

ApiSpec == Init /\ [][ApiNext]_vars


----------------------------------------------------------------------------
(* The tracker driven directly: its three methods on the instance, between *)
(* resets of the simulator and of the simulation                           *)

\* The tracker's methods are called only while its counters sum to less
\* than this
MaxTrackerCalls == 4

\* The characters handed to update_input_coverage
InputChars == Chars \cup test_chars

UpdateInputCoverage ==
    /\ total_inputs(coverage_tracker) + total_transitions(coverage_tracker)
           < MaxTrackerCalls
    /\ \E data \in InputChars :
        /\ coverage_tracker' = update_input_coverage(coverage_tracker, data)
        /\ call' = [op |-> "update_input_coverage", data |-> data]
    /\ response' = [value |-> "None"]
    /\ UNCHANGED simulator

UpdateFsmCoverage ==
    /\ total_inputs(coverage_tracker) + total_transitions(coverage_tracker)
           < MaxTrackerCalls
    /\ \E state_before \in States, state_after \in States :
        /\ coverage_tracker' = update_fsm_coverage(coverage_tracker,
                                                   state_before, state_after)
        /\ call' = [op |-> "update_fsm_coverage",
                    state_before |-> state_before,
                    state_after |-> state_after]
    /\ response' = [value |-> "None"]
    /\ UNCHANGED simulator

GetCoverageReport ==
    /\ response' = get_coverage_report(coverage_tracker)
    /\ call' = [op |-> "get_coverage_report"]
    /\ UNCHANGED <<simulator, coverage_tracker>>

TrackerNext ==
    \/ UpdateInputCoverage
    \/ UpdateFsmCoverage
    \/ GetCoverageReport
    \/ Reset
    \/ ResetSimulation

TrackerSpec == Init /\ [][TrackerNext]_vars

----------------------------------------------------------------------------
(* /api/send-packet requests served by concurrent threads: each statement  *)
(* of the handler that touches the shared simulator or tracker is a step.  *)
(* Here call[t] is the request thread t is serving, with the handler's     *)
(* locals and position, and response[t] the last answer thread t gave.     *)

Threads == {1, 2}

\* Requests are accepted only while fewer packets than this were processed
\* or are about to be
MaxRequests == 3

\* The bodies of the concurrent /api/send-packet requests
ConcurrentBodies ==
    {[data |-> "S"], [data |-> "K"],
     [data |-> "S", checksum |-> Xor(Ord("S"), 170)]}

\* Thread t is inside the handler
InFlight(c, t) == c[t].pc \notin {"idle", "returned"}

\* Thread t has taken a step: every other request in flight is interleaved
\* with it from now on
Interleave(c, t) ==
    [u \in Threads |->
        IF u # t /\ InFlight(c, u) THEN [c[u] EXCEPT !.interleaved = TRUE]
        ELSE c[u]]

ConcApiInit ==
    /\ simulator = TCPIPStackSimulator
    /\ coverage_tracker = CoverageTracker
    /\ call = [t \in Threads |-> [op |-> "none", pc |-> "idle"]]
    /\ response = [t \in Threads |-> [value |-> "None"]]

SendPacketBegin_always_idle(t) ==
    /\ ~InFlight(call, t)
    /\ simulator.statistics.total_packets
           + Cardinality({u \in Threads : call[u].pc = "process_packet"})
           < MaxRequests
    /\ \E json \in ConcurrentBodies :
        call' = Interleave(
            [call EXCEPT ![t] =
                [op |-> "send_packet", pc |-> "process_packet",
                 json |-> json,
                 packet |-> Packet(json.data,
                                   Get(json, "checksum",
                                       Xor(Ord(json.data), 255)),
                                   Get(json, "flags", 0)),
                 state_before |-> IDLE,
                 interleaved |-> FALSE]], t)
    /\ UNCHANGED <<simulator, coverage_tracker, response>>

\* data = request.json; packet = Packet(...); state_before = simulator.state
SendPacketBegin(t) ==
    /\ ~InFlight(call, t)
    /\ simulator.statistics.total_packets
           + Cardinality({u \in Threads : call[u].pc = "process_packet"})
           < MaxRequests
    /\ \E json \in ConcurrentBodies :
        call' = Interleave(
            [call EXCEPT ![t] =
                [op |-> "send_packet", pc |-> "process_packet",
                 json |-> json,
                 packet |-> Packet(json.data,
                                   Get(json, "checksum",
                                       Xor(Ord(json.data), 255)),
                                   Get(json, "flags", 0)),
                 state_before |-> simulator.state,
                 interleaved |-> FALSE]], t)
    /\ UNCHANGED <<simulator, coverage_tracker, response>>

\* result = simulator.process_packet(packet)
SendPacketProcess(t) ==
    /\ call[t].pc = "process_packet"
    /\ \E r \in {process_packet(simulator, call[t].packet)} :
        /\ simulator' = r.self
        /\ call' = Interleave(
               [call EXCEPT ![t] =
                   [result |-> r.result, pc |-> "update_input_coverage"]
                       @@ call[t]], t)
    /\ UNCHANGED <<coverage_tracker, response>>

\* coverage_tracker.update_input_coverage(packet.data)
SendPacketInputCoverage(t) ==
    /\ call[t].pc = "update_input_coverage"
    /\ coverage_tracker'
           = update_input_coverage(coverage_tracker, call[t].packet.data)
    /\ call' = Interleave([call EXCEPT ![t].pc = "update_fsm_coverage"], t)
    /\ UNCHANGED <<simulator, response>>

\* coverage_tracker.update_fsm_coverage(state_before, simulator.state)
SendPacketFsmCoverage(t) ==
    /\ call[t].pc = "update_fsm_coverage"
    /\ coverage_tracker'
           = update_fsm_coverage(coverage_tracker, call[t].state_before,
                                 simulator.state)
    /\ call' = Interleave(
           [call EXCEPT ![t] =
               [handed |-> <<call[t].state_before, simulator.state>>,
                pc |-> "return"] @@ call[t]], t)
    /\ UNCHANGED <<simulator, response>>

\* return jsonify({...})
SendPacketReturn(t) ==
    /\ call[t].pc = "return"
    /\ response' = [response EXCEPT ![t] =
                       [success |-> TRUE, result |-> call[t].result,
                        statistics |-> simulator.statistics]]
    /\ call' = Interleave([call EXCEPT ![t].pc = "returned"], t)
    /\ UNCHANGED <<simulator, coverage_tracker>>

ConcApiNext ==
    \E t \in Threads :
        \/ SendPacketBegin(t)
        \/ SendPacketProcess(t)
        \/ SendPacketInputCoverage(t)
        \/ SendPacketFsmCoverage(t)
        \/ SendPacketReturn(t)

ConcApiSpec == ConcApiInit /\ [][ConcApiNext]_vars

----------------------------------------------------------------------------
(* process_packet called by concurrent threads on the shared simulator:    *)
(* each read and each write of self.statistics, self.state and the two     *)
(* histories is a step. call[t] is the call thread t is making, with its   *)
(* live locals, its position pc, the number of calls t has begun and       *)
(* whether a call of t ever had another thread's step inside it;           *)
(* response[t] is what t's last call returned.                             *)

\* The counters of self.statistics
Counters ==
    {"total_packets", "passed_packets", "failed_packets", "checksum_errors",
     "state_transitions"}

\* The threads begin fewer calls than this in total
MaxCalls == 3

\* The packets of the concurrent calls
ConcurrentPackets ==
    {Packet("S", Xor(Ord("S"), 255), 1), Packet("K", Xor(Ord("K"), 255), 2),
     Packet("S", Xor(Ord("S"), 170), 1)}

\* The calls begun and the calls that have returned
Begun(c) == c[1].begun + c[2].begun

Completed(c) ==
    Begun(c) - Cardinality({t \in Threads : InFlight(c, t)})

ConcInit ==
    /\ simulator = TCPIPStackSimulator
    /\ coverage_tracker = CoverageTracker
    /\ call = [t \in Threads |->
                  [op |-> "none", pc |-> "idle", begun |-> 0,
                   interleaved |-> FALSE]]
    /\ response = [t \in Threads |-> [value |-> "None"]]

\* Thread t moves on to the call record c
Step(t, c) ==
    /\ call' = Interleave([call EXCEPT ![t] = c], t)
    /\ UNCHANGED coverage_tracker

\* The position after self.statistics[counter] += 1
AfterCounter(counter) ==
    CASE counter = "total_packets" -> "state_before"
      [] counter = "checksum_errors" -> "load_failed_packets"
      [] counter = "failed_packets" -> "result"
      [] counter = "state_transitions" -> "load_passed_packets"
      [] counter = "passed_packets" -> "result"

\* simulator.process_packet(packet) is entered
ProcessCall(t) ==
    /\ ~InFlight(call, t)
    /\ Begun(call) < MaxCalls
    /\ \E packet \in ConcurrentPackets :
        Step(t, [op |-> "process_packet", pc |-> "load_total_packets",
                 packet |-> packet, begun |-> call[t].begun + 1,
                 interleaved |-> call[t].interleaved,
                 loaded |-> 0, state_before |-> IDLE, new_state |-> IDLE,
                 output_data |-> "", response_type |-> "normal",
                 result |-> <<>>])
    /\ UNCHANGED <<simulator, response>>

\* self.statistics[counter] += 1 reads the counter ...
LoadCounter(t) ==
    /\ \E counter \in Counters :
        /\ call[t].pc = "load_" \o counter
        /\ Step(t, [call[t] EXCEPT !.loaded = simulator.statistics[counter],
                                   !.pc = "store_" \o counter])
    /\ UNCHANGED <<simulator, response>>

StoreCounter_twice(t) ==
    /\ \E counter \in Counters :
        /\ call[t].pc = "store_" \o counter
        /\ simulator' = [simulator EXCEPT
                            !.statistics[counter] = call[t].loaded + 2]
        /\ Step(t, [call[t] EXCEPT !.loaded = 0,
                                   !.pc = AfterCounter(counter)])
    /\ UNCHANGED response

\* ... and then writes what it read plus 1
StoreCounter(t) ==
    /\ \E counter \in Counters :
        /\ call[t].pc = "store_" \o counter
        /\ simulator' = [simulator EXCEPT
                            !.statistics[counter] = call[t].loaded + 1]
        /\ Step(t, [call[t] EXCEPT !.loaded = 0,
                                   !.pc = AfterCounter(counter)])
    /\ UNCHANGED response

\* state_before = self.state; output_data = ""; response_type = "normal";
\* if not packet.verify_checksum(): output_data = "E"; response_type = "error"
ReadStateBefore(t) ==
    /\ call[t].pc = "state_before"
    /\ IF ~verify_checksum(call[t].packet)
       THEN Step(t, [call[t] EXCEPT !.state_before = simulator.state,
                                    !.output_data = "E",
                                    !.response_type = "error",
                                    !.pc = "load_checksum_errors"])
       ELSE Step(t, [call[t] EXCEPT !.state_before = simulator.state,
                                    !.pc = "test_idle"])
    /\ UNCHANGED <<simulator, response>>

\* if self.state == State.IDLE: with the test of packet.data under it
TestIdle(t) ==
    /\ call[t].pc = "test_idle"
    /\ IF simulator.state # IDLE
       THEN Step(t, [call[t] EXCEPT !.pc = "test_syn_received"])
       ELSE IF call[t].packet.data = "S"
       THEN Step(t, [call[t] EXCEPT !.new_state = SYN_RECEIVED,
                                    !.output_data = "A",
                                    !.response_type = "syn_ack",
                                    !.pc = "write_state"])
       ELSE Step(t, [call[t] EXCEPT !.output_data = call[t].packet.data,
                                    !.response_type = "echo",
                                    !.pc = "load_passed_packets"])
    /\ UNCHANGED <<simulator, response>>

\* elif self.state == State.SYN_RECEIVED: with the test of packet.data
TestSynReceived(t) ==
    /\ call[t].pc = "test_syn_received"
    /\ IF simulator.state # SYN_RECEIVED
       THEN Step(t, [call[t] EXCEPT !.pc = "test_ack_received"])
       ELSE IF call[t].packet.data = "K"
       THEN Step(t, [call[t] EXCEPT !.new_state = ACK_RECEIVED,
                                    !.output_data = "C",
                                    !.response_type = "ack_complete",
                                    !.pc = "write_state"])
       ELSE Step(t, [call[t] EXCEPT !.output_data = call[t].packet.data,
                                    !.response_type = "echo",
                                    !.pc = "load_passed_packets"])
    /\ UNCHANGED <<simulator, response>>

\* elif self.state == State.ACK_RECEIVED: no arm runs when the test fails
TestAckReceived(t) ==
    /\ call[t].pc = "test_ack_received"
    /\ IF simulator.state = ACK_RECEIVED
       THEN Step(t, [call[t] EXCEPT !.output_data = call[t].packet.data,
                                    !.response_type = "data_transfer",
                                    !.pc = "load_passed_packets"])
       ELSE Step(t, [call[t] EXCEPT !.pc = "load_passed_packets"])
    /\ UNCHANGED <<simulator, response>>

\* self.state = State.SYN_RECEIVED, or self.state = State.ACK_RECEIVED
WriteState(t) ==
    /\ call[t].pc = "write_state"
    /\ simulator' = [simulator EXCEPT !.state = call[t].new_state]
    /\ Step(t, [call[t] EXCEPT !.pc = "load_state_transitions"])
    /\ UNCHANGED response

\* result = SimulationResult(..., state_after=self.state, ...)
MakeResult(t) ==
    /\ call[t].pc = "result"
    /\ Step(t, [call[t] EXCEPT
                   !.result = SimulationResult(
                                  call[t].packet, call[t].output_data,
                                  call[t].state_before, simulator.state,
                                  verify_checksum(call[t].packet),
                                  call[t].response_type),
                   !.pc = "append_result"])
    /\ UNCHANGED <<simulator, response>>

\* self.simulation_results.append(result)
AppendResult(t) ==
    /\ call[t].pc = "append_result"
    /\ simulator' = [simulator EXCEPT
                        !.simulation_results = Append(@, call[t].result)]
    /\ Step(t, [call[t] EXCEPT !.result = <<>>, !.pc = "append_packet"])
    /\ UNCHANGED response

\* self.packet_history.append(packet)
AppendPacket(t) ==
    /\ call[t].pc = "append_packet"
    /\ simulator' = [simulator EXCEPT
                        !.packet_history = Append(@, call[t].packet)]
    /\ Step(t, [call[t] EXCEPT !.pc = "return"])
    /\ UNCHANGED response

\* return {..., 'state_after': self.state.name, ...}
ProcessReturn(t) ==
    /\ call[t].pc = "return"
    /\ response' = [response EXCEPT ![t] =
                       [input_data |-> call[t].packet.data,
                        output_data |-> call[t].output_data,
                        state_before |-> StateName(call[t].state_before),
                        state_after |-> StateName(simulator.state),
                        checksum_valid |-> verify_checksum(call[t].packet),
                        response_type |-> call[t].response_type]]
    /\ Step(t, [op |-> "process_packet", pc |-> "returned",
                begun |-> call[t].begun,
                interleaved |-> call[t].interleaved])
    /\ UNCHANGED simulator

ConcNext ==
    \E t \in Threads :
        \/ ProcessCall(t)
        \/ LoadCounter(t)
        \/ StoreCounter(t)
        \/ ReadStateBefore(t)
        \/ TestIdle(t)
        \/ TestSynReceived(t)
        \/ TestAckReceived(t)
        \/ WriteState(t)
        \/ MakeResult(t)
        \/ AppendResult(t)
        \/ AppendPacket(t)
        \/ ProcessReturn(t)

ConcSpec == ConcInit /\ [][ConcNext]_vars

----------------------------------------------------------------------------
(* Properties of process_packet and reset *)

\* code XOR 0xFF stated without Xor: the low eight bits of the code flipped
FlipLow8(n) == (n \div 256) * 256 + (255 - (n % 256))

\* The checksum of packet p is the right one
RightChecksum(p) == p.checksum = FlipLow8(Ord(p.data))

\* The step just taken is a process_packet call
ProcessPacketStep == call'.op = "process_packet"


Last(seq) == seq[Len(seq)]

\* C1: a packet with a wrong checksum, in whatever state, leaves the state,
\* passed_packets and state_transitions as they were, adds exactly 1 to
\* checksum_errors and to failed_packets, and is answered with response type
\* 'error', output 'E' and checksum_valid false.
C1_WrongChecksumStep ==
    [][(ProcessPacketStep /\ ~RightChecksum(call'.packet)) =>
        /\ simulator'.state = simulator.state
        /\ simulator'.statistics.checksum_errors
               = simulator.statistics.checksum_errors + 1
        /\ simulator'.statistics.failed_packets
               = simulator.statistics.failed_packets + 1
        /\ simulator'.statistics.passed_packets
               = simulator.statistics.passed_packets
        /\ simulator'.statistics.state_transitions
               = simulator.statistics.state_transitions
        /\ response'.response_type = "error"
        /\ response'.output_data = "E"
        /\ response'.checksum_valid = FALSE]_vars

\* A wrong checksum was just rejected after the handshake had completed
C1_Witness ==
    /\ call.op = "process_packet"
    /\ ~RightChecksum(call.packet)
    /\ simulator.state = ACK_RECEIVED
    /\ response.response_type = "error"
    /\ simulator.statistics.checksum_errors = 1

\* C2: in Idle, a packet with the right checksum and payload 'S' moves the
\* state to SynReceived, is answered 'A' / 'syn_ack' and adds 1 to
\* state_transitions; any other payload leaves the state Idle, is echoed with
\* response type 'echo' and leaves state_transitions alone. Either way
\* passed_packets grows by 1.
C2_IdleStep ==
    [][(/\ ProcessPacketStep
        /\ RightChecksum(call'.packet)
        /\ simulator.state = IDLE) =>
        /\ simulator'.statistics.passed_packets
               = simulator.statistics.passed_packets + 1
        /\ IF call'.packet.data = "S"
           THEN /\ simulator'.state = SYN_RECEIVED
                /\ response'.output_data = "A"
                /\ response'.response_type = "syn_ack"
                /\ simulator'.statistics.state_transitions
                       = simulator.statistics.state_transitions + 1
           ELSE /\ simulator'.state = IDLE
                /\ response'.output_data = call'.packet.data
                /\ response'.response_type = "echo"
                /\ simulator'.statistics.state_transitions
                       = simulator.statistics.state_transitions]_vars

\* A valid 'S' was just taken in Idle, after another valid packet was echoed
C2_Witness ==
    /\ call.op = "process_packet"
    /\ call.packet.data = "S"
    /\ response.state_before = "IDLE"
    /\ response.response_type = "syn_ack"
    /\ simulator.state = SYN_RECEIVED
    /\ simulator.statistics.passed_packets = 2
    /\ simulator.simulation_results[1].response_type = "echo"

\* C3: in SynReceived, a packet with the right checksum and payload 'K' moves
\* the state to AckReceived, is answered 'C' / 'ack_complete' and adds 1 to
\* state_transitions; any other payload, a repeated 'S' included, leaves the
\* state SynReceived, is echoed with response type 'echo' and leaves
\* state_transitions alone.
C3_SynReceivedStep ==
    [][(/\ ProcessPacketStep
        /\ RightChecksum(call'.packet)
        /\ simulator.state = SYN_RECEIVED) =>
        IF call'.packet.data = "K"
        THEN /\ simulator'.state = ACK_RECEIVED
             /\ response'.output_data = "C"
             /\ response'.response_type = "ack_complete"
             /\ simulator'.statistics.state_transitions
                    = simulator.statistics.state_transitions + 1
        ELSE /\ simulator'.state = SYN_RECEIVED
             /\ response'.output_data = call'.packet.data
             /\ response'.response_type = "echo"
             /\ simulator'.statistics.state_transitions
                    = simulator.statistics.state_transitions]_vars

\* A repeated valid 'S' was just echoed in SynReceived
C3_Witness ==
    /\ call.op = "process_packet"
    /\ call.packet.data = "S"
    /\ RightChecksum(call.packet)
    /\ response.state_before = "SYN_RECEIVED"
    /\ response.response_type = "echo"
    /\ response.output_data = "S"
    /\ simulator.state = SYN_RECEIVED

\* C4: AckReceived is absorbing for process_packet: a call made in
\* AckReceived, whatever its payload and checksum, leaves the state
\* AckReceived and state_transitions unchanged, and a packet with the right
\* checksum is answered with its own payload and response type
\* 'data_transfer'; a step that leaves AckReceived is a reset().
C4_AckReceivedAbsorbing ==
    [][simulator.state = ACK_RECEIVED =>
        /\ ProcessPacketStep =>
              /\ simulator'.state = ACK_RECEIVED
              /\ simulator'.statistics.state_transitions
                     = simulator.statistics.state_transitions
              /\ RightChecksum(call'.packet) =>
                    /\ response'.response_type = "data_transfer"
                    /\ response'.output_data = call'.packet.data
        /\ simulator'.state # ACK_RECEIVED => call'.op = "reset"]_vars

\* A valid 'S' was just processed in AckReceived
C4_Witness ==
    /\ call.op = "process_packet"
    /\ call.packet.data = "S"
    /\ RightChecksum(call.packet)
    /\ response.state_before = "ACK_RECEIVED"
    /\ response.response_type = "data_transfer"
    /\ simulator.state = ACK_RECEIVED

\* C5: after reset() the state is Idle, both histories are empty and the five
\* counters are 0: the simulator is as it was when constructed.
C5_ResetState ==
    call.op = "reset" =>
        /\ simulator.state = IDLE
        /\ simulator.packet_history = <<>>
        /\ simulator.simulation_results = <<>>
        /\ DOMAIN simulator.statistics = Counters
        /\ \A k \in Counters : simulator.statistics[k] = 0
        /\ simulator = TCPIPStackSimulator

\* reset() has just run
C5_Witness ==
    /\ call.op = "reset"
    /\ simulator.state = IDLE
    /\ simulator.statistics.total_packets = 0

\* C6: when the packets processed since the last reset are a valid 'S' and
\* then a valid 'K', the state is AckReceived, with state_transitions,
\* total_packets and passed_packets at 2 and failed_packets at 0; and a
\* /api/handshake request, whatever state it finds the simulator in, ends in
\* that state and answers handshake_complete true, final state ACK_RECEIVED.
C6_Handshake ==
    /\ (/\ Len(simulator.packet_history) = 2
        /\ simulator.packet_history[1].data = "S"
        /\ RightChecksum(simulator.packet_history[1])
        /\ simulator.packet_history[2].data = "K"
        /\ RightChecksum(simulator.packet_history[2])) =>
          /\ simulator.state = ACK_RECEIVED
          /\ simulator.statistics.state_transitions = 2
          /\ simulator.statistics.total_packets = 2
          /\ simulator.statistics.passed_packets = 2
          /\ simulator.statistics.failed_packets = 0
    /\ call.op = "perform_handshake" =>
          /\ response.success = TRUE
          /\ response.handshake_complete = TRUE
          /\ response.final_state = "ACK_RECEIVED"
          /\ simulator.state = ACK_RECEIVED
          /\ Len(simulator.packet_history) = 2
          /\ response.statistics.state_transitions = 2
          /\ response.statistics.total_packets = 2
          /\ response.statistics.passed_packets = 2
          /\ response.statistics.failed_packets = 0

\* A handshake has just run on a simulator that had already left Idle: the
\* tracker has counted two Idle to SynReceived transitions since /api/reset
C6_Witness ==
    /\ call.op = "perform_handshake"
    /\ response.handshake_complete = TRUE
    /\ coverage_tracker.fsm_transitions.idle_to_syn = 2
    /\ simulator.state = ACK_RECEIVED

\* C7: verify_checksum of the packet just processed, the checksum_valid field
\* process_packet returned for it and the one of the result it recorded are
\* true exactly when the packet's checksum is its character's code XOR 0xFF,
\* in whatever state, with whatever statistics and history, the call was made.
C7_VerifyChecksum ==
    call.op = "process_packet" =>
        /\ verify_checksum(call.packet) = RightChecksum(call.packet)
        /\ response.checksum_valid = RightChecksum(call.packet)
        /\ Last(simulator.simulation_results).checksum_valid
               = RightChecksum(call.packet)

\* 'K' was just processed with the right checksum of 'S', in SynReceived
C7_Witness ==
    /\ call.op = "process_packet"
    /\ call.packet.data = "K"
    /\ call.packet.checksum = 172
    /\ response.state_before = "SYN_RECEIVED"
    /\ response.checksum_valid = FALSE
    /\ simulator.simulation_results[1].checksum_valid = TRUE

\* C8: whatever the state, payload and checksum, process_packet answers with
\* one of the five response types (never the placeholder 'normal') and a
\* non-empty output; the type is 'error' exactly when the checksum is wrong.
C8_Total ==
    call.op = "process_packet" =>
        /\ response.response_type
               \in {"error", "syn_ack", "ack_complete", "echo", "data_transfer"}
        /\ response.output_data # ""
        /\ response.response_type = "error" <=> ~RightChecksum(call.packet)

\* A packet with the right checksum was just processed in AckReceived
C8_Witness ==
    /\ call.op = "process_packet"
    /\ RightChecksum(call.packet)
    /\ response.state_before = "ACK_RECEIVED"
    /\ response.response_type = "data_transfer"
    /\ simulator.statistics.total_packets = MaxPackets

\* C9: a process_packet call adds 1 to total_packets and 0 or 1 to every other
\* counter; a step in which some counter gets smaller is a reset().
C9_CountersMonotone ==
    [][/\ ProcessPacketStep =>
             /\ simulator'.statistics.total_packets
                    = simulator.statistics.total_packets + 1
             /\ \A k \in Counters :
                    simulator'.statistics[k] - simulator.statistics[k]
                        \in {0, 1}
       /\ (\E k \in Counters :
               simulator'.statistics[k] < simulator.statistics[k])
              => call'.op = "reset"]_vars

\* A packet was just processed with both transitions and one error counted
C9_Witness ==
    /\ call.op = "process_packet"
    /\ simulator.statistics.state_transitions = 2
    /\ simulator.statistics.checksum_errors = 1
    /\ simulator.statistics.total_packets = 3

\* C10: every process_packet call, one with a wrong checksum included,
\* appends one result to simulation_results and its packet to packet_history,
\* at the end and with the earlier entries unchanged; the result holds the
\* packet, the state the call began in and the state it ended in. Both
\* histories always have length total_packets.
C10_Histories ==
    /\ [][ProcessPacketStep =>
            /\ simulator'.packet_history
                   = Append(simulator.packet_history, call'.packet)
            /\ Len(simulator'.simulation_results)
                   = Len(simulator.simulation_results) + 1
            /\ SubSeq(simulator'.simulation_results, 1,
                      Len(simulator.simulation_results))
                   = simulator.simulation_results
            /\ Last(simulator'.simulation_results).input_packet = call'.packet
            /\ Last(simulator'.simulation_results).state_before
                   = simulator.state
            /\ Last(simulator'.simulation_results).state_after
                   = simulator'.state]_vars
    /\ [](/\ Len(simulator.simulation_results)
                 = simulator.statistics.total_packets
          /\ Len(simulator.packet_history)
                 = simulator.statistics.total_packets)

\* A packet with a wrong checksum was just recorded after a valid 'S'
C10_Witness ==
    /\ call.op = "process_packet"
    /\ ~RightChecksum(call.packet)
    /\ Len(simulator.simulation_results) = 2
    /\ simulator.simulation_results[1].state_after = SYN_RECEIVED
    /\ simulator.simulation_results[2].state_before = SYN_RECEIVED
    /\ simulator.simulation_results[2].response_type = "error"
    /\ simulator.packet_history[2] = call.packet

----------------------------------------------------------------------------
(* Properties of the coverage tracker *)

InputClasses == {"syn", "ack", "noise", "misc"}

\* The input class of a payload
InputClass(data) ==
    CASE data = "S" -> "syn"
      [] data = "K" -> "ack"
      [] data = "Z" -> "noise"
      [] OTHER -> "misc"

\* C11: update_input_coverage(payload) adds 1 to the counter of the payload's
\* class ('syn' for 'S', 'ack' for 'K', 'noise' for 'Z', 'misc' for every
\* other payload) and leaves the other three input counters, the FSM-transition
\* counters and the simulator as they were.
C11_InputCoverageStep ==
    [][call'.op = "update_input_coverage" =>
        /\ DOMAIN coverage_tracker'.input_coverage = InputClasses
        /\ \A k \in InputClasses :
               coverage_tracker'.input_coverage[k]
                   = coverage_tracker.input_coverage[k]
                       + (IF k = InputClass(call'.data) THEN 1 ELSE 0)
        /\ coverage_tracker'.fsm_transitions = coverage_tracker.fsm_transitions
        /\ simulator' = simulator]_vars

\* 'S', 'K', 'Z' and 'Q' have been recorded, 'Q' last: each class counts 1
C11_Witness ==
    /\ call.op = "update_input_coverage"
    /\ call.data = "Q"
    /\ coverage_tracker.input_coverage
           = [syn |-> 1, ack |-> 1, noise |-> 1, misc |-> 1]

\* C12: update_fsm_coverage(before, after) adds 1 to idle_to_syn for (Idle,
\* SynReceived) only and 1 to syn_to_ack for (SynReceived, AckReceived) only,
\* and changes no counter for the seven other pairs; the 'resets' counter is
\* 0 in every state, whichever methods and resets have run.
C12_FsmCoverageStep ==
    /\ [][call'.op = "update_fsm_coverage" =>
            /\ coverage_tracker'.fsm_transitions.idle_to_syn
                   = coverage_tracker.fsm_transitions.idle_to_syn
                       + (IF /\ call'.state_before = IDLE
                             /\ call'.state_after = SYN_RECEIVED
                          THEN 1 ELSE 0)
            /\ coverage_tracker'.fsm_transitions.syn_to_ack
                   = coverage_tracker.fsm_transitions.syn_to_ack
                       + (IF /\ call'.state_before = SYN_RECEIVED
                             /\ call'.state_after = ACK_RECEIVED
                          THEN 1 ELSE 0)
            /\ coverage_tracker'.input_coverage
                   = coverage_tracker.input_coverage]_vars
    /\ [](coverage_tracker.fsm_transitions.resets = 0)

\* (AckReceived, Idle) has just been ignored after both transitions were
\* counted once
C12_Witness ==
    /\ call.op = "update_fsm_coverage"
    /\ call.state_before = ACK_RECEIVED
    /\ call.state_after = IDLE
    /\ coverage_tracker.fsm_transitions
           = [idle_to_syn |-> 1, syn_to_ack |-> 1, resets |-> 0]

\* C14: the two percentages of get_coverage_report() are 0 or 100: the input
\* percentage is 0 exactly when the four input counters are all 0, the FSM
\* percentage 0 exactly when the FSM-transition counters are all 0, and each
\* is 100 otherwise.
C14_Percentages ==
    /\ LET report == get_coverage_report(coverage_tracker)
       IN  /\ report.input_coverage_percentage
                  = (IF \A k \in InputClasses :
                            coverage_tracker.input_coverage[k] = 0
                     THEN 0 ELSE 100)
           /\ report.fsm_coverage_percentage
                  = (IF \A k \in DOMAIN coverage_tracker.fsm_transitions :
                            coverage_tracker.fsm_transitions[k] = 0
                     THEN 0 ELSE 100)
    /\ call.op = "get_coverage_report" =>
          /\ response = get_coverage_report(coverage_tracker)
          /\ response.input_coverage_percentage \in {0, 100}
          /\ response.fsm_coverage_percentage \in {0, 100}

\* A report has been made with three inputs and no transition counted
C14_Witness ==
    /\ call.op = "get_coverage_report"
    /\ total_inputs(coverage_tracker) = 3
    /\ total_transitions(coverage_tracker) = 0
    /\ response.input_coverage_percentage = 100
    /\ response.fsm_coverage_percentage = 0

FsmClasses == {"idle_to_syn", "syn_to_ack", "resets"}

\* C13: no coverage counter decreases in any API operation but /api/reset,
\* which leaves a tracker whose counters are all 0; the simulator's reset()
\* inside /api/handshake and /api/run-test leaves the counters alone: the
\* handshake adds 1 to syn, ack, idle_to_syn and syn_to_ack on top of what was
\* counted before, and run-test only adds to the input counters.
C13_CoverageMonotone ==
    [][/\ call'.op = "reset_simulation" =>
              /\ \A k \in InputClasses : coverage_tracker'.input_coverage[k] = 0
              /\ \A k \in FsmClasses : coverage_tracker'.fsm_transitions[k] = 0
       /\ call'.op # "reset_simulation" =>
              /\ \A k \in InputClasses :
                     coverage_tracker'.input_coverage[k]
                         >= coverage_tracker.input_coverage[k]
              /\ \A k \in FsmClasses :
                     coverage_tracker'.fsm_transitions[k]
                         >= coverage_tracker.fsm_transitions[k]
       /\ call'.op = "perform_handshake" =>
              /\ \A k \in InputClasses :
                     coverage_tracker'.input_coverage[k]
                         = coverage_tracker.input_coverage[k]
                             + (IF k \in {"syn", "ack"} THEN 1 ELSE 0)
              /\ \A k \in FsmClasses :
                     coverage_tracker'.fsm_transitions[k]
                         = coverage_tracker.fsm_transitions[k]
                             + (IF k = "resets" THEN 0 ELSE 1)
       /\ call'.op = "run_test" =>
              /\ total_inputs(coverage_tracker')
                     = total_inputs(coverage_tracker) + call'.json.num_packets
              /\ coverage_tracker'.fsm_transitions
                     = coverage_tracker.fsm_transitions]_vars

\* A handshake has run, and so reset the simulator, after one 'Z' was sent:
\* the noise counted before it is still counted
C13_Witness ==
    /\ call.op = "perform_handshake"
    /\ simulator.statistics.total_packets = 2
    /\ coverage_tracker.input_coverage
           = [syn |-> 1, ack |-> 1, noise |-> 1, misc |-> 0]

\* The results an API operation's process_packet calls returned
ResultsOf(op, body) ==
    IF op = "send_packet" THEN <<body.result>> ELSE body.results

\* How many of the results moved the simulator from state b to state a
Performed(results, b, a) ==
    Cardinality({i \in DOMAIN results :
                     /\ results[i].state_before = StateName(b)
                     /\ results[i].state_after = StateName(a)})

\* C15: the coverage counters count what was exercised: every send-packet,
\* handshake and run-test operation adds to syn + ack + noise + misc the
\* number of packets it passed to process_packet, to idle_to_syn the number
\* of Idle to SynReceived transitions the simulator performed in it and to
\* syn_to_ack the number of SynReceived to AckReceived transitions; so the
\* counters equal those numbers after any sequence following /api/reset.
C15_CoverageCountsExercised ==
    [][call'.op \in {"send_packet", "perform_handshake", "run_test"} =>
        LET results == ResultsOf(call'.op, response')
        IN  /\ total_inputs(coverage_tracker')
                   = total_inputs(coverage_tracker) + Len(results)
            /\ coverage_tracker'.fsm_transitions.idle_to_syn
                   = coverage_tracker.fsm_transitions.idle_to_syn
                       + Performed(results, IDLE, SYN_RECEIVED)
            /\ coverage_tracker'.fsm_transitions.syn_to_ack
                   = coverage_tracker.fsm_transitions.syn_to_ack
                       + Performed(results, SYN_RECEIVED, ACK_RECEIVED)]_vars

\* The same holds of the send-packet and handshake operations alone
C15_CountedOutsideRunTest ==
    [][call'.op \in {"send_packet", "perform_handshake"} =>
        LET results == ResultsOf(call'.op, response')
        IN  /\ total_inputs(coverage_tracker')
                   = total_inputs(coverage_tracker) + Len(results)
            /\ coverage_tracker'.fsm_transitions.idle_to_syn
                   = coverage_tracker.fsm_transitions.idle_to_syn
                       + Performed(results, IDLE, SYN_RECEIVED)
            /\ coverage_tracker'.fsm_transitions.syn_to_ack
                   = coverage_tracker.fsm_transitions.syn_to_ack
                       + Performed(results, SYN_RECEIVED, ACK_RECEIVED)]_vars

----------------------------------------------------------------------------
(* Invariants of the simulator under serialized process_packet and reset *)

\* How many results of the history have the given checksum_valid
CountValid(results, valid) ==
    Cardinality({i \in DOMAIN results : results[i].checksum_valid = valid})

\* C18: total_packets = passed_packets + failed_packets and failed_packets =
\* checksum_errors in every state; failed_packets is the number of history
\* results with checksum_valid false, passed_packets the number with
\* checksum_valid true.
C18_PacketCounts ==
    LET st == simulator.statistics
    IN  /\ st.total_packets = st.passed_packets + st.failed_packets
        /\ st.failed_packets = st.checksum_errors
        /\ st.failed_packets = CountValid(simulator.simulation_results, FALSE)
        /\ st.passed_packets = CountValid(simulator.simulation_results, TRUE)

\* Three packets were processed, one of them with a wrong checksum
C18_Witness ==
    /\ call.op = "process_packet"
    /\ simulator.statistics.total_packets = 3
    /\ simulator.statistics.failed_packets = 1
    /\ simulator.statistics.passed_packets = 2

\* How many results of the history changed the state
CountMoves(results) ==
    Cardinality({i \in DOMAIN results :
                     results[i].state_before # results[i].state_after})

\* C19: state_transitions is the position of the current state in the order
\* Idle = 0, SynReceived = 1, AckReceived = 2, so it never exceeds 2, and it
\* is the number of history results whose state-before differs from their
\* state-after.
C19_TransitionsOrdinal ==
    /\ simulator.statistics.state_transitions
           = (CASE simulator.state = IDLE -> 0
                [] simulator.state = SYN_RECEIVED -> 1
                [] simulator.state = ACK_RECEIVED -> 2)
    /\ simulator.statistics.state_transitions <= 2
    /\ simulator.statistics.state_transitions
           = CountMoves(simulator.simulation_results)

\* Both transitions were made and a third packet left the state where it was
C19_Witness ==
    /\ call.op = "process_packet"
    /\ simulator.state = ACK_RECEIVED
    /\ simulator.statistics.state_transitions = 2
    /\ Len(simulator.simulation_results) = 3
    /\ Last(simulator.simulation_results).state_before = ACK_RECEIVED

\* The positions of the history that hold payload c with its right checksum
ValidAt(history, c) ==
    {i \in DOMAIN history : history[i].data = c /\ RightChecksum(history[i])}

\* C20: the state after the packets processed since the last reset is
\* AckReceived exactly when they hold a correct-checksum 'S' followed later by
\* a correct-checksum 'K', SynReceived exactly when they hold a
\* correct-checksum 'S' and no correct-checksum 'K' after the first such 'S',
\* and Idle otherwise; no process_packet step moves the state from Idle to
\* AckReceived or to an earlier state.
C20_StateOfHistory ==
    /\ [](LET history == simulator.packet_history
              syns == ValidAt(history, "S")
              acks == ValidAt(history, "K")
              followed == \E i \in syns : \E j \in acks : i < j
              open == /\ syns # {}
                      /\ \A i \in syns :
                             (\A k \in syns : i <= k) =>
                                 ~ \E j \in acks : i < j
          IN  /\ simulator.state = ACK_RECEIVED <=> followed
              /\ simulator.state = SYN_RECEIVED <=> open
              /\ simulator.state = IDLE <=> (~followed /\ ~open))
    /\ [][ProcessPacketStep =>
            /\ simulator'.state >= simulator.state
            /\ ~(simulator.state = IDLE /\ simulator'.state = ACK_RECEIVED)]_vars

\* A correct 'S', then a 'K' with a wrong checksum, then a correct 'Z': the
\* state is still SynReceived
C20_Witness ==
    /\ call.op = "process_packet"
    /\ simulator.state = SYN_RECEIVED
    /\ Len(simulator.packet_history) = 3
    /\ 1 \in ValidAt(simulator.packet_history, "S")
    /\ simulator.packet_history[2].data = "K"
    /\ ~RightChecksum(simulator.packet_history[2])
    /\ 3 \in ValidAt(simulator.packet_history, "Z")

----------------------------------------------------------------------------
(* Concurrent requests *)

\* C17: a send-packet request that ran without another request's step in
\* between hands the tracker the state_before and state_after of its own
\* process_packet result.
C17_PairHanded ==
    \A t \in Threads :
        (call[t].pc \in {"return", "returned"} /\ ~call[t].interleaved) =>
            /\ StateName(call[t].handed[1]) = call[t].result.state_before
            /\ StateName(call[t].handed[2]) = call[t].result.state_after

\* Two interleaved requests both read Idle before either processed its 'S':
\* the second one's process_packet found SynReceived and made no transition,
\* yet it handed (Idle, SynReceived) to the tracker, which has now counted
\* two Idle to SynReceived transitions where the simulator made one
C17_Witness ==
    \E t \in Threads :
        /\ call[t].pc = "returned"
        /\ call[t].interleaved
        /\ call[t].handed = <<IDLE, SYN_RECEIVED>>
        /\ call[t].result.state_before = "SYN_RECEIVED"
        /\ call[t].result.state_after = "SYN_RECEIVED"
        /\ coverage_tracker.fsm_transitions.idle_to_syn = 2
        /\ simulator.statistics.state_transitions = 1

\* No call is in progress
Quiescent == \A t \in Threads : ~InFlight(call, t)

\* What serialized calls keep true of the simulator between calls: each
\* completed call was counted once and recorded once in both histories, and
\* the statistics count what the histories record
Consistent ==
    LET st == simulator.statistics
        results == simulator.simulation_results
    IN  /\ st.total_packets = Completed(call)
        /\ Len(results) = Completed(call)
        /\ Len(simulator.packet_history) = Completed(call)
        /\ st.total_packets = st.passed_packets + st.failed_packets
        /\ st.failed_packets = st.checksum_errors
        /\ st.failed_packets = CountValid(results, FALSE)
        /\ st.passed_packets = CountValid(results, TRUE)
        /\ st.state_transitions = CountMoves(results)
        /\ st.state_transitions = simulator.state

\* C16: when the process_packet calls are serialized (no call ever had
\* another thread's step inside it), the simulator between calls is in a
\* state where total_packets is the number of completed calls and the
\* statistics agree with the histories.
C16_SerializedConsistent ==
    (Quiescent /\ \A t \in Threads : ~call[t].interleaved) => Consistent

\* Two interleaved calls with right checksums have both returned: each read
\* total_packets and passed_packets before the other wrote them, so both
\* counters are 1 while the history holds two results, both valid
C16_Witness ==
    /\ Quiescent
    /\ \E t \in Threads : call[t].interleaved
    /\ Completed(call) = 2
    /\ simulator.statistics.total_packets = 1
    /\ simulator.statistics.passed_packets = 1
    /\ Len(simulator.simulation_results) = 2
    /\ CountValid(simulator.simulation_results, TRUE) = 2

=============================================================================
